---- MODULE Spec2Model ----
(***************************************************************************)
(* A model of the guidelines crawler (src/crawl.py) and of the document    *)
(* assembler (src/build.py).                                               *)
(*                                                                         *)
(* A URL is a record [host, path, frag]: host is the netloc as written     *)
(* (case kept), path is the sequence of its "/"-separated segments         *)
(* ("/youtube/a" is <<"youtube", "a">>), frag is the fragment ("" when     *)
(* there is none).  The URLs of the model carry no port, user-info or      *)
(* surrounding whitespace, so netloc and host coincide and strip() is the  *)
(* identity on them.                                                       *)
(***************************************************************************)
EXTENDS Integers, Sequences, FiniteSets, TLC

VARIABLES
    \* ---- crawl.py: the arguments of crawl() and the world it talks to
    start_url,      \* crawl(start_url, ...)
    max_pages,      \* crawl(..., max_pages, ...)
    allowed_hosts,  \* crawl(..., allowed_hosts), lower-cased by __main__
    robotsTxt,      \* the robots policy each host serves (path prefixes it disallows)
    \* ---- crawl.py: the locals of crawl()
    cpc,            \* position in crawl(): "start", "loop", "done", "crashed", "idle"
    rp,             \* the parsed robots policy: the set of disallowed path prefixes
    robotsResult,   \* how the robots.txt request ended: "none", "ok", "httperror", "exception"
    seen,           \* seen = set()
    queue,          \* queue = [...]
    pages,          \* pages = []
    snapshot,       \* what json.dump wrote: <<>> before, <<[start_url, pages]>> after
    gets,           \* every session.get issued so far, in order: [kind, url]
    depth,          \* link depth at which each URL was first put on the queue
    \* ---- build.py: main()
    bpc,            \* position in main(): "load", "build", "write", "docx", "pdf", "print", "done", "aborted", "idle"
    input,          \* the content of the --in file: a snapshot record, or not JSON
    data,           \* data = json.load(f)
    md,             \* md = build_md(data)
    files,          \* the files written under outdir
    invoked,        \* the converter invocations made so far, in order
    error,          \* the exception that ended main(), <<>> when none
    \* ---- build.py: slugify
    title,          \* the argument of slugify
    slug            \* its result, <<>> before the call

cvars == <<start_url, max_pages, allowed_hosts, robotsTxt, cpc, rp, robotsResult,
           seen, queue, pages, snapshot, gets, depth>>
bvars == <<bpc, input, data, md, files, invoked, error>>
svars == <<title, slug>>
vars == <<cvars, bvars, svars>>

\* ------------------------------------------------------------------ bounds
\* the largest --max-pages tried
MaxPagesBound == 3
\* the largest number of <a href> elements in one fetched page
MaxLinks == 2
\* the longest title slugify is tried on, besides the over-long ones
MaxTitleLen == 4
\* the largest number of entries in the pages list of an input snapshot
MaxSnapshotPages == 3

\* ------------------------------------------------------------- URL universe
Url(h, p, f) == [host |-> h, path |-> p, frag |-> f]

SG == "support.google.com"
YT == "www.youtube.com"

\* str.lower() on the host strings, path segments and characters of the model
Lower(s) ==
    CASE s = "SUPPORT.GOOGLE.COM" -> "support.google.com"
      [] s = "YouTube" -> "youtube"
      [] s = "A" -> "a"
      [] s = "U" -> "u"
      [] OTHER -> s

LowerPath(p) == [i \in 1..Len(p) |-> Lower(p[i])]

UA == Url(SG, <<"youtube", "a">>, "")
UC == Url("SUPPORT.GOOGLE.COM", <<"YouTube", "a">>, "")
UD == Url(YT, <<"creators", "c">>, "")
UE == Url("evil.example", <<"youtube", "a">>, "")
US == Url("help.support.google.com", <<"youtube", "a">>, "")
UAtop == Url(SG, <<"youtube", "a">>, "top")
\* an href urljoin cannot resolve, such as "http://[": it raises ValueError
BadHref == Url("[", <<>>, "")

\* the absolute URLs a resolvable <a href> of a fetched page may resolve to
Hrefs == {UAtop, UC, UD, US}
\* the values of --start
Seeds == {UAtop, UD, UE}
\* the values of --hosts, lower-cased as __main__ does
HostSets == {{SG, YT}, {SG, "help.support.google.com"}}
\* the robots policies a host may serve, as sets of disallowed path prefixes:
\* no rule, "Disallow: /creators/", or "Disallow: /"
RuleSets == {{}, {<<"creators">>}, {<<>>}}

\* ---------------------------------------------------------------- crawl.py
normalize_url(u) == [u EXCEPT !.frag = ""]

same_host_nocheck(url, hosts) == TRUE
same_host(url, hosts) == Lower(url.host) \in hosts

is_probably_policy_page(url) ==
    LET host == Lower(url.host)
        path == LowerPath(url.path)
    IN  IF host = "support.google.com"
        THEN Len(path) >= 2 /\ path[1] = "youtube"
        ELSE IF host \in {"www.youtube.com", "youtube.com"}
        THEN \E i \in 1..(Len(path) - 1) : path[i] \in {"creators", "howyoutubeworks"}
        ELSE FALSE

\* RuleLine.applies_to: the rule's path is a prefix of the URL's path
IsPrefix(r, p) == Len(r) <= Len(p) /\ \A i \in 1..Len(r) : r[i] = p[i]

\* RobotFileParser.can_fetch(USER_AGENT, url): only the path of url is looked at
can_fetch(rules, url) == ~ \E r \in rules : IsPrefix(r, url.path)

\* the policy the host of url serves (host names are case-insensitive)
PolicyOf(url) ==
    IF Lower(url.host) \in DOMAIN robotsTxt THEN robotsTxt[Lower(url.host)] ELSE {}

\* the answers to GET <scheme>://<netloc>/robots.txt: the request raises, or it
\* returns the host's robots file, or an HTTP error whose HTML body holds no rule
RobotsResponses(url) ==
    { [result |-> "exception", rules |-> {}],
      [result |-> "ok", rules |-> PolicyOf(url)],
      [result |-> "httperror", rules |-> {}] }

get_robots_parser(resp) ==
    IF resp.result = "exception" THEN {<<>>} ELSE resp.rules

\* extract_main_text(html) -> (title, text)
extract_main_text(html) == [title |-> html.title, text |-> html.text]

\* extract_links(base_url, html): each href resolved and normalized, in order
extract_links(html) == [i \in 1..Len(html.hrefs) |-> normalize_url(html.hrefs[i])]

\* urljoin raises ValueError on one of the hrefs
LinksRaise(html) == \E i \in 1..Len(html.hrefs) : html.hrefs[i] = BadHref

RECURSIVE SeqsUpTo(_, _)
SeqsUpTo(S, n) ==
    IF n = 0 THEN {<<>>}
    ELSE LET shorter == SeqsUpTo(S, n - 1)
         IN  shorter \cup {Append(s, x) : s \in {t \in shorter : Len(t) = n - 1}, x \in S}

Html(hs) == [title |-> "T", text |-> "X", hrefs |-> hs]
\* the HTML documents a page may answer with: every href resolves, or the
\* last one does not
Htmls ==
    {Html(hs) : hs \in SeqsUpTo(Hrefs, MaxLinks)}
        \cup {Html(Append(hs, BadHref)) : hs \in SeqsUpTo(Hrefs, MaxLinks - 1)}

LoopCond_offbyone(q, ps, max) == q # <<>> /\ Len(ps) <= max
\* while queue and len(pages) < max_pages
LoopCond(q, ps, max) == q # <<>> /\ Len(ps) < max

IsSeen_never(u, s) == FALSE
\* if url in seen / if link not in seen
IsSeen(u, s) == u \in s

Dequeue_last(q) == [url |-> q[Len(q)], rest |-> SubSeq(q, 1, Len(q) - 1)]
\* url = queue.pop(0)
Dequeue(q) == [url |-> Head(q), rest |-> Tail(q)]

RECURSIVE Enqueue(_, _, _)
\* for link in links: if link not in seen: queue.append(link)
Enqueue(q, links, s) ==
    IF links = <<>> THEN q
    ELSE Enqueue(IF IsSeen(Head(links), s) THEN q ELSE Append(q, Head(links)),
                 Tail(links), s)

RECURSIVE NoteDepth(_, _, _, _)
\* the depth of each link the first time it is put on the queue
NoteDepth(dp, links, s, d) ==
    IF links = <<>> THEN dp
    ELSE LET l == Head(links)
             dp2 == IF IsSeen(l, s) \/ l \in DOMAIN dp THEN dp ELSE dp @@ (l :> d)
         IN  NoteDepth(dp2, Tail(links), s, d)

BuildIdle ==
    /\ bpc = "idle" /\ input = "none" /\ data = <<>> /\ md = <<>>
    /\ files = {} /\ invoked = <<>> /\ error = <<>>
SlugIdle == title = <<>> /\ slug = <<>>

CrawlInit ==
    /\ start_url \in Seeds
    /\ max_pages \in 0..MaxPagesBound
    /\ allowed_hosts \in HostSets
    /\ robotsTxt \in [{SG, YT} -> RuleSets]
    /\ cpc = "start"
    /\ rp = {}
    /\ robotsResult = "none"
    /\ seen = {}
    /\ queue = <<>>
    /\ pages = <<>>
    /\ snapshot = <<>>
    /\ gets = <<>>
    /\ depth = <<>>
    /\ BuildIdle /\ SlugIdle

\* lines 102-109: the robots.txt request for the seed's host, then the locals
FetchRobots ==
    /\ cpc = "start"
    /\ \E resp \in RobotsResponses(start_url) :
          /\ rp' = get_robots_parser(resp)
          /\ robotsResult' = resp.result
    /\ gets' = Append(gets, [kind |-> "robots", url |-> Url(start_url.host, <<"robots.txt">>, "")])
    /\ seen' = {}
    /\ queue' = <<normalize_url(start_url)>>
    /\ depth' = (normalize_url(start_url) :> 0)
    /\ pages' = <<>>
    /\ cpc' = "loop"
    /\ UNCHANGED <<start_url, max_pages, allowed_hosts, robotsTxt, snapshot, bvars, svars>>

Looping == cpc = "loop" /\ LoopCond(queue, pages, max_pages)

CrawlFrame == UNCHANGED <<start_url, max_pages, allowed_hosts, robotsTxt, rp, robotsResult,
                          snapshot, bvars, svars>>

\* lines 112-114: the URL was visited before
SkipSeen ==
    /\ Looping
    /\ LET d == Dequeue(queue) IN
          /\ IsSeen(d.url, seen)
          /\ queue' = d.rest
    /\ UNCHANGED <<seen, pages, gets, depth, cpc>>
    /\ CrawlFrame

\* what lines 117-124 decide for a URL not seen before
Eligible(url) ==
    /\ same_host(url, allowed_hosts)
    /\ is_probably_policy_page(url)
    /\ can_fetch(rp, url)

\* lines 115-124: the URL is marked seen and skipped by a filter
SkipFiltered ==
    /\ Looping
    /\ LET d == Dequeue(queue) IN
          /\ ~IsSeen(d.url, seen)
          /\ ~Eligible(d.url)
          /\ queue' = d.rest
          /\ seen' = seen \cup {d.url}
    /\ UNCHANGED <<pages, gets, depth, cpc>>
    /\ CrawlFrame

\* lines 126-132: the GET raises, or answers a non-200 status or a non-HTML type
FetchSkipped ==
    /\ Looping
    /\ LET d == Dequeue(queue) IN
          /\ ~IsSeen(d.url, seen)
          /\ Eligible(d.url)
          /\ \E outcome \in {"exception", "status", "nonhtml"} :
                gets' = Append(gets, [kind |-> "page", url |-> d.url])
          /\ queue' = d.rest
          /\ seen' = seen \cup {d.url}
    /\ UNCHANGED <<pages, depth, cpc>>
    /\ CrawlFrame

\* lines 126-146: the page is fetched, appended, and its links are enqueued
FetchPage ==
    /\ Looping
    /\ LET d == Dequeue(queue) IN
          /\ ~IsSeen(d.url, seen)
          /\ Eligible(d.url)
          /\ \E html \in Htmls :
                LET tt == extract_main_text(html)
                    s2 == seen \cup {d.url}
                IN  /\ ~LinksRaise(html)
                    /\ pages' = Append(pages, [url |-> d.url, title |-> tt.title, text |-> tt.text])
                    /\ queue' = Enqueue(d.rest, extract_links(html), s2)
                    /\ depth' = NoteDepth(depth, extract_links(html), s2, depth[d.url] + 1)
                    /\ seen' = s2
          /\ gets' = Append(gets, [kind |-> "page", url |-> d.url])
    /\ UNCHANGED cpc
    /\ CrawlFrame

\* lines 134-142 with line 95 raising: the page is appended, then urljoin's
\* ValueError leaves crawl() before anything is written
FetchPageBadLink ==
    /\ Looping
    /\ LET d == Dequeue(queue) IN
          /\ ~IsSeen(d.url, seen)
          /\ Eligible(d.url)
          /\ \E html \in Htmls :
                LET tt == extract_main_text(html) IN
                    /\ LinksRaise(html)
                    /\ pages' = Append(pages, [url |-> d.url, title |-> tt.title, text |-> tt.text])
          /\ queue' = d.rest
          /\ seen' = seen \cup {d.url}
          /\ gets' = Append(gets, [kind |-> "page", url |-> d.url])
    /\ cpc' = "crashed"
    /\ UNCHANGED depth
    /\ CrawlFrame

\* lines 148-153: the loop condition is false and the snapshot is written
WriteSnapshot ==
    /\ cpc = "loop"
    /\ ~LoopCond(queue, pages, max_pages)
    /\ snapshot' = <<[start_url |-> start_url, pages |-> pages]>>
    /\ cpc' = "done"
    /\ UNCHANGED <<start_url, max_pages, allowed_hosts, robotsTxt, rp, robotsResult,
                   seen, queue, pages, gets, depth, bvars, svars>>

CrawlNext ==
    \/ FetchRobots
    \/ SkipSeen
    \/ SkipFiltered
    \/ FetchSkipped
    \/ FetchPage
    \/ FetchPageBadLink
    \/ WriteSnapshot

SpecCrawl == CrawlInit /\ [][CrawlNext]_vars

\* ------------------------------------------------------- claims on crawl()
PageGets == SelectSeq(gets, LAMBDA g : g.kind = "page")
PageUrls(ps) == [i \in 1..Len(ps) |-> ps[i].url]
Distinct(s) == \A i, j \in 1..Len(s) : i # j => s[i] # s[j]
HostAllowed(url) == Lower(url.host) \in allowed_hosts

\* C1: the pages list never holds more than max_pages entries, and neither
\* does the pages list of the written snapshot.
C1_PagesWithinCeiling ==
    /\ Len(pages) <= max_pages
    /\ snapshot # <<>> => Len(snapshot[1].pages) <= max_pages

\* the cap ended the loop while the frontier still held URLs
C1_Witness ==
    /\ snapshot # <<>>
    /\ max_pages >= 2
    /\ Len(snapshot[1].pages) = max_pages
    /\ queue # <<>>

C3_RobotsRespectedPerHost ==
    robotsResult = "ok" =>
        /\ \A i \in 1..Len(PageGets) : can_fetch(PolicyOf(PageGets[i].url), PageGets[i].url)
        /\ \A i \in 1..Len(pages) : can_fetch(PolicyOf(pages[i].url), pages[i].url)

\* C4: when the robots.txt request raised or did not return the robots
\* file, the policy disallows every URL, no page is requested, the run does
\* not fail and the snapshot it writes has no pages.
C4_RobotsFailureDisallowsAll ==
    robotsResult \in {"exception", "httperror"} =>
        /\ \A u \in {UA, UC, UD, UE, US} : ~can_fetch(rp, u)
        /\ PageGets = <<>>
        /\ cpc # "crashed"
        /\ snapshot # <<>> => snapshot[1].pages = <<>>

\* C5: no URL is the target of two page GETs, whatever their outcome, and
\* no two collected Pages have the same url.
C5_FetchedAtMostOnce ==
    /\ Distinct(PageUrls(PageGets))
    /\ Distinct(PageUrls(pages))

\* a URL already fetched is waiting on the queue a second time, and a fetch
\* that produced no Page has happened
C5_Witness ==
    /\ \E i \in 1..Len(queue) :
          queue[i] \in seen /\ \E j \in 1..Len(PageGets) : PageGets[j].url = queue[i]
    /\ Len(PageGets) > Len(pages)

\* C8 (its safety part): no per-URL outcome ends the run without a snapshot,
\* and when the loop has ended the frontier is empty or the cap is reached.
C8_NoFatalPath ==
    /\ cpc # "crashed"
    /\ cpc = "done" => (queue = <<>> \/ Len(pages) >= max_pages)

\* C10: the Pages are in the order of their fetches; a Page is never placed
\* after a Page first discovered at a greater link depth; no URL still
\* waiting for its first visit was discovered at a smaller depth than a Page
\* already collected (the frontier is served first-in-first-out); and the
\* written snapshot holds the Pages in that order.
C10_BreadthFirstOrder ==
    /\ PageUrls(pages) =
          PageUrls(SelectSeq(PageGets, LAMBDA g : \E i \in 1..Len(pages) : pages[i].url = g.url))
    /\ \A i, j \in 1..Len(pages) :
          i < j => depth[pages[i].url] <= depth[pages[j].url]
    /\ \A i \in 1..Len(queue), j \in 1..Len(pages) :
          queue[i] \notin seen => depth[pages[j].url] <= depth[queue[i]]
    /\ snapshot # <<>> => snapshot[1].pages = pages

\* three Pages at depths 0, 1, 2, a filtered URL of depth 1 having been
\* dequeued between them, and the frontier not yet empty
C10_Witness ==
    /\ Len(pages) = 3
    /\ depth[pages[2].url] = 1
    /\ depth[pages[3].url] = 2
    /\ US \in seen
    /\ depth[US] = 1
    /\ queue # <<>>

\* ---------------------------------------------------------------- build.py
\* A title is a sequence of characters.  \w matches letters, digits and the
\* underscore; \s matches white space.
WordChars == {"a", "A", "1", "_", "U", "u", "n", "t", "i", "l", "e", "d"}
SpaceChars == {" "}
\* the characters titles are made of: a letter in both cases, a digit, a
\* blank, the hyphen, the underscore and one other punctuation mark
Chars == {"a", "A", "1", " ", "-", "_", "!"}
\* the punctuation marks among them
PunctChars == {"-", "_", "!"}

\* s[:80]
SlugMax == 80
Section == <<"s", "e", "c", "t", "i", "o", "n">>
Untitled == <<"U", "n", "t", "i", "t", "l", "e", "d">>

\* str.strip() on a sequence of characters: from its first to its last
\* character that is not white space
Strip(s) ==
    LET solid == {i \in 1..Len(s) : s[i] \notin SpaceChars} IN
    IF solid = {} THEN <<>>
    ELSE SubSeq(s, CHOOSE i \in solid : \A j \in solid : i <= j,
                   CHOOSE i \in solid : \A j \in solid : j <= i)

\* str.lower() on a sequence of characters
LowerSeq(s) == [i \in 1..Len(s) |-> Lower(s[i])]

\* re.sub(r"[^\w\s-]", "", s)
DropOthers(s) == SelectSeq(s, LAMBDA c : c \in WordChars \/ c \in SpaceChars \/ c = "-")

\* re.sub(r"\s+", "-", s): each run of white space becomes one hyphen, put
\* where the run starts
HyphenateSpace(s) ==
    LET kept == SelectSeq([i \in 1..Len(s) |-> i],
                          LAMBDA i : s[i] \notin SpaceChars \/ i = 1 \/ s[i - 1] \notin SpaceChars)
    IN  [k \in 1..Len(kept) |-> IF s[kept[k]] \in SpaceChars THEN "-" ELSE s[kept[k]]]

OrSection_missing(s) == SubSeq(s, 1, IF Len(s) < SlugMax THEN Len(s) ELSE SlugMax)
\* return s[:80] if s else "section"
OrSection(s) ==
    IF s # <<>> THEN SubSeq(s, 1, IF Len(s) < SlugMax THEN Len(s) ELSE SlugMax)
    ELSE Section

slugify(s) == OrSection(HyphenateSpace(DropOthers(LowerSeq(Strip(s)))))

\* the titles slugify is tried on: every short one, and one of SlugMax + 1
\* equal characters for each character
SlugTitles ==
    SeqsUpTo(Chars, MaxTitleLen) \cup {[i \in 1..(SlugMax + 1) |-> c] : c \in Chars}

CrawlIdle ==
    /\ start_url = "none" /\ max_pages = 0 /\ allowed_hosts = {} /\ robotsTxt = <<>>
    /\ cpc = "idle" /\ rp = {} /\ robotsResult = "none" /\ seen = {} /\ queue = <<>>
    /\ pages = <<>> /\ snapshot = <<>> /\ gets = <<>> /\ depth = <<>>

SlugInit ==
    /\ title \in SlugTitles
    /\ slug = <<>>
    /\ CrawlIdle /\ BuildIdle

\* one call of slugify(title)
Slugify ==
    /\ slug = <<>>
    /\ slug' = <<slugify(title)>>
    /\ UNCHANGED <<title, cvars, bvars>>

SlugNext == Slugify

SpecSlug == SlugInit /\ [][SlugNext]_vars

\* ------------------------------------------------------- claims on slugify
IsPunctOnly(s) == s # <<>> /\ \A i \in 1..Len(s) : s[i] \in PunctChars

\* C9 as stated: a title made only of punctuation characters gives
\* "section", and the result is never the empty string.
C9_PunctuationGivesSection ==
    slug # <<>> =>
        /\ IsPunctOnly(title) => slug[1] = Section
        /\ slug[1] # <<>>

\* C9 amended: a title made only of punctuation characters other than the
\* hyphen and the underscore gives "section", and the result is never the
\* empty string.
C9_OtherPunctuationGivesSection ==
    slug # <<>> =>
        /\ (IsPunctOnly(title) /\ \A i \in 1..Len(title) : title[i] \notin {"-", "_"})
              => slug[1] = Section
        /\ slug[1] # <<>>
        /\ Len(slug[1]) <= SlugMax

\* slugify returned "section" for a title of several such punctuation marks
C9_Witness ==
    /\ slug = <<Section>>
    /\ Len(title) >= 2
    /\ \A i \in 1..Len(title) : title[i] = "!"

\* ------------------------------------------------------ build.py: build_md
\* str.strip() on the url and text strings of the model
StripStr(t) ==
    CASE t = " y " -> "y"
      [] OTHER -> t

\* the Page entries of an input snapshot; an entry may lack its url or title
PageRecs == [url : {"", "u1", "u2"}, title : {<<>>, <<" ", "A", "!">>}, text : {"x", " y "}]

\* the contents of the --in file: not JSON (json is FALSE), or a snapshot
Inputs ==
    {[json |-> FALSE, start_url |-> "", fetched_at_utc |-> "", pages |-> <<>>]} \cup
    {[json |-> TRUE, start_url |-> "u1", fetched_at_utc |-> "t0", pages |-> ps] :
        ps \in SeqsUpTo(PageRecs, MaxSnapshotPages)}

KeepPage_nodedup(u, seenUrls) == u # ""
\* if u and u not in seen
KeepPage(u, seenUrls) == u # "" /\ u \notin seenUrls

RECURSIVE Uniq(_, _)
\* lines 26-32: seen = set(); uniq = []; for p in pages: ...
Uniq(ps, seenUrls) ==
    IF ps = <<>> THEN <<>>
    ELSE LET p == Head(ps) IN
         IF KeepPage(p.url, seenUrls)
         THEN <<p>> \o Uniq(Tail(ps), seenUrls \cup {p.url})
         ELSE Uniq(Tail(ps), seenUrls)

\* (p.get("title") or "Untitled").strip()
TitleOf(p) == Strip(IF p.title # <<>> THEN p.title ELSE Untitled)

Blank == [kind |-> "blank"]
Rule == [kind |-> "hr"]

\* lines 44-47: one table-of-contents entry per kept page
TocLines(uniq) ==
    [i \in 1..Len(uniq) |->
        [kind |-> "toc", title |-> TitleOf(uniq[i]), anchor |-> slugify(TitleOf(uniq[i]))]]

RECURSIVE SectionLines(_)
\* lines 54-66: heading, source line, blank, text, blank, rule, blank
SectionLines(uniq) ==
    IF uniq = <<>> THEN <<>>
    ELSE LET p == Head(uniq) IN
         << [kind |-> "h2", title |-> TitleOf(p)],
            [kind |-> "quelle", url |-> StripStr(p.url)],
            Blank,
            [kind |-> "text", text |-> StripStr(p.text)],
            Blank, Rule, Blank >> \o SectionLines(Tail(uniq))

\* build_md(data): the document as its sequence of lines ("\n".join(lines))
build_md(d) ==
    LET uniq == Uniq(d.pages, {}) IN
    << [kind |-> "h1"],
       Blank,
       [kind |-> "date", value |-> d.fetched_at_utc],
       [kind |-> "start", value |-> d.start_url],
       Blank,
       [kind |-> "tochead"],
       Blank >>
    \o TocLines(uniq)
    \o << Blank, Rule, Blank >>
    \o SectionLines(uniq)

\* -------------------------------------------------------- build.py: main
MdPath == "master.md"
DocxCmd == "pandoc master.md -o master.docx"
PdfCmd == "pandoc master.md -o master.pdf --pdf-engine=xelatex"

\* how a converter process may end: its exit code and what it wrote to stderr
Exits == [returncode : {0, 1}, stderr : {"", "pandoc: error"}]

run_nocheck(cmd, exit) == [raised |-> FALSE, cmd |-> cmd, stderr |-> exit.stderr]
\* run(cmd): RuntimeError(f"Command failed: {cmd}\n{r.stderr}") on a non-zero exit
run(cmd, exit) == [raised |-> exit.returncode # 0, cmd |-> cmd, stderr |-> exit.stderr]

BuildInit ==
    /\ bpc = "load"
    /\ input \in Inputs
    /\ data = <<>>
    /\ md = <<>>
    /\ files = {}
    /\ invoked = <<>>
    /\ error = <<>>
    /\ CrawlIdle /\ SlugIdle

\* lines 72-73: json.load raises on a malformed file
Load ==
    /\ bpc = "load"
    /\ IF ~input.json
       THEN /\ error' = <<[type |-> "JSONDecodeError"]>>
            /\ bpc' = "aborted"
            /\ data' = data
       ELSE /\ data' = <<[start_url |-> input.start_url,
                          fetched_at_utc |-> input.fetched_at_utc,
                          pages |-> input.pages]>>
            /\ bpc' = "build"
            /\ error' = error
    /\ UNCHANGED <<input, md, files, invoked, cvars, svars>>

\* line 75
Build ==
    /\ bpc = "build"
    /\ md' = <<build_md(data[1])>>
    /\ bpc' = "write"
    /\ UNCHANGED <<input, data, files, invoked, error, cvars, svars>>

\* lines 76-78
WriteMd ==
    /\ bpc = "write"
    /\ files' = files \cup {[path |-> MdPath, content |-> md[1]]}
    /\ bpc' = "docx"
    /\ UNCHANGED <<input, data, md, invoked, error, cvars, svars>>

\* one run(cmd) of main: the invocation is made, and a raised error ends main
Convert(cmd, next) ==
    \E exit \in Exits :
        LET r == run(cmd, exit) IN
        /\ invoked' = Append(invoked, [cmd |-> cmd, returncode |-> exit.returncode,
                                       stderr |-> exit.stderr])
        /\ IF r.raised
           THEN /\ error' = <<[type |-> "RuntimeError", cmd |-> r.cmd, stderr |-> r.stderr]>>
                /\ bpc' = "aborted"
           ELSE /\ error' = error
                /\ bpc' = next
        /\ UNCHANGED <<input, data, md, files, cvars, svars>>

\* line 84
RunDocx == bpc = "docx" /\ Convert(DocxCmd, "pdf")

\* line 87
RunPdf == bpc = "pdf" /\ Convert(PdfCmd, "print")

\* line 89
PrintWrote ==
    /\ bpc = "print"
    /\ bpc' = "done"
    /\ UNCHANGED <<input, data, md, files, invoked, error, cvars, svars>>

BuildNext ==
    \/ Load
    \/ Build
    \/ WriteMd
    \/ RunDocx
    \/ RunPdf
    \/ PrintWrote

SpecBuild == BuildInit /\ [][BuildNext]_vars

\* ------------------------------------------------------ claims on build.py
\* the sections of a document: each heading with its source line and text
SectionsOf(doc) ==
    LET idx == SelectSeq([i \in 1..Len(doc) |-> i], LAMBDA i : doc[i].kind = "h2")
    IN  [k \in 1..Len(idx) |->
            [title |-> doc[idx[k]].title, url |-> doc[idx[k] + 1].url,
             text |-> doc[idx[k] + 3].text]]

\* the table-of-contents entries of a document
TocOf(doc) == SelectSeq(doc, LAMBDA l : l.kind = "toc")

\* the positions of the entries that are the first with their url
FirstOfUrl(ps) ==
    SelectSeq([i \in 1..Len(ps) |-> i],
              LAMBDA i : \A j \in 1..(i - 1) : ps[j].url # ps[i].url)

\* the section and the table-of-contents entry an entry stands for
SectionFor(p) == [title |-> TitleOf(p), url |-> StripStr(p.url), text |-> StripStr(p.text)]
TocFor(p) == [kind |-> "toc", title |-> TitleOf(p), anchor |-> slugify(TitleOf(p))]

\* C6 as stated: the document has one section and one table-of-contents
\* entry for each distinct url of the pages list, built from the first entry
\* with that url, in the order of those first entries.
C6_OneSectionPerUrl ==
    md # <<>> =>
        LET ps == data[1].pages
            first == FirstOfUrl(ps)
        IN  /\ SectionsOf(md[1]) = [k \in 1..Len(first) |-> SectionFor(ps[first[k]])]
            /\ TocOf(md[1]) = [k \in 1..Len(first) |-> TocFor(ps[first[k]])]

\* C6 amended: the same for each distinct non-empty url; entries whose url is
\* empty or missing get no section and no table-of-contents entry.
C6_OneSectionPerNonEmptyUrl ==
    md # <<>> =>
        LET ps == data[1].pages
            first == SelectSeq(FirstOfUrl(ps), LAMBDA i : ps[i].url # "")
        IN  /\ SectionsOf(md[1]) = [k \in 1..Len(first) |-> SectionFor(ps[first[k]])]
            /\ TocOf(md[1]) = [k \in 1..Len(first) |-> TocFor(ps[first[k]])]

\* a snapshot u1, u2, u1 whose two u1 entries differ in text: two sections,
\* in that order, the first with the text of the first u1 entry
C6_Witness ==
    /\ md # <<>>
    /\ Len(data[1].pages) = 3
    /\ data[1].pages[1].url = "u1"
    /\ data[1].pages[2].url = "u2"
    /\ data[1].pages[3].url = "u1"
    /\ data[1].pages[1].text # data[1].pages[3].text
    /\ Len(SectionsOf(md[1])) = 2
    /\ SectionsOf(md[1])[1].text = StripStr(data[1].pages[1].text)

HasMd == [path |-> MdPath, content |-> md[1]] \in files

\* C7: a converter is invoked only once master.md holds the whole document;
\* only the last invocation can have failed, and when it has, main has ended
\* with that invocation's command and error output, master.md still written.
C7_ConverterAfterMdAndFatal ==
    /\ invoked # <<>> => (md # <<>> /\ HasMd)
    /\ \A i \in 1..Len(invoked) :
          invoked[i].returncode # 0 =>
              /\ i = Len(invoked)
              /\ bpc = "aborted"
              /\ error = <<[type |-> "RuntimeError", cmd |-> invoked[i].cmd,
                            stderr |-> invoked[i].stderr]>>
              /\ HasMd

\* the first converter run failed: main ended there, master.md is written
C7_Witness ==
    /\ bpc = "aborted"
    /\ Len(invoked) = 1
    /\ invoked[1].returncode # 0
    /\ invoked[1].stderr # ""
    /\ md # <<>>
    /\ HasMd

====
